---- MODULE Spec2Model ----
(***************************************************************************)
(* Model of src/components/StreetViewCollector.tsx: the StreetViewCollector *)
(* React component, its boundary helpers (isPointInBoundary,                *)
(* pointInPolygon, getBoundaryBounds) and its asynchronous collection run   *)
(* (simulateCollection).  The source file holds two definitions of the      *)
(* component: the boundary-validating one (lines 27-437) and the plain one  *)
(* (lines 464-780); the variable version says which one is mounted.         *)
(*                                                                          *)
(* Numbers.  JavaScript numbers are modelled as tagged records so that the  *)
(* Infinity / -Infinity start values of getBoundaryBounds and the NaN they  *)
(* produce in the sampler are values of the model.  Finite numbers are      *)
(* integers: vertex coordinates are integer literals and Math.random() is   *)
(* drawn so that the sampled coordinate lands on the integer grid of        *)
(* [min, max).  The comparison of pointInPolygon is evaluated exactly       *)
(* (cross-multiplied), i.e. without floating-point rounding.                *)
(***************************************************************************)
EXTENDS Integers, Sequences, FiniteSets, TLC

(***************************************************************************)
(* Bounds of the model and constants of the program                         *)
(***************************************************************************)
\* largest targetCount a run is started with in the model
MaxTargetCount == 2

\* most vertices of a polygon handed to pointInPolygon directly
MaxVertices == 4

\* most features of a boundary handed to getBoundaryBounds directly
MaxFeatures == 2

\* line 165: if (attempts > 100)
MaxAttempts == 100

\* line 32: targetCount: 100
DefaultTargetCount == 100

(***************************************************************************)
(* JavaScript numbers                                                       *)
(***************************************************************************)
Num(v) == [k |-> "fin", v |-> v]
Infinity == [k |-> "inf", v |-> 1]
NegInfinity == [k |-> "inf", v |-> -1]
NaN == [k |-> "nan", v |-> 0]

IsFinite(a) == a.k = "fin"

\* a < b on JavaScript numbers (false when either is NaN)
JsLt(a, b) ==
    IF a.k = "nan" \/ b.k = "nan" THEN FALSE
    ELSE IF a.k = "fin" /\ b.k = "fin" THEN a.v < b.v
    ELSE IF a.k = "inf" /\ b.k = "inf" THEN a.v < b.v
    ELSE IF a.k = "inf" THEN a.v < 0
    ELSE b.v > 0

\* Math.min(a, b)
MathMin(a, b) ==
    IF a.k = "nan" \/ b.k = "nan" THEN NaN
    ELSE IF JsLt(b, a) THEN b ELSE a

\* Math.max(a, b)
MathMax(a, b) ==
    IF a.k = "nan" \/ b.k = "nan" THEN NaN
    ELSE IF JsLt(a, b) THEN b ELSE a

\* a + b
JsAdd(a, b) ==
    IF a.k = "nan" \/ b.k = "nan" THEN NaN
    ELSE IF a.k = "fin" /\ b.k = "fin" THEN Num(a.v + b.v)
    ELSE IF a.k = "inf" /\ b.k = "inf" THEN (IF a.v = b.v THEN a ELSE NaN)
    ELSE IF a.k = "inf" THEN a
    ELSE b

\* a - b
JsSub(a, b) ==
    JsAdd(a, IF b.k = "fin" THEN Num(0 - b.v)
             ELSE IF b.k = "inf" THEN [k |-> "inf", v |-> 0 - b.v]
             ELSE NaN)

\* The values Math.random() * d can take, Math.random() being in [0, 1):
\* for a finite d > 0 those on the integer grid, 0 for d = 0, and for an
\* infinite d either NaN (a draw of 0) or the infinity itself.
RandomTimes(d) ==
    IF d.k = "nan" THEN {NaN}
    ELSE IF d.k = "inf" THEN {NaN, d}
    ELSE IF d.v > 0 THEN {Num(o) : o \in 0..(d.v - 1)}
    ELSE IF d.v = 0 THEN {Num(0)}
    ELSE {Num(0 - o) : o \in 0..((0 - d.v) - 1)}

(***************************************************************************)
(* pointInPolygon, lines 75-88                                              *)
(* point is <<x, y>> = [lng, lat] (JavaScript numbers), polygon a sequence  *)
(* of vertices <<lng, lat>> (integers).  polygon[i] of the source is        *)
(* polygon[i + 1] here.                                                     *)
(***************************************************************************)
\* x < (xj - xi) * (y - yi) / (yj - yi) + xi, evaluated exactly; yj # yi
\* holds whenever it is evaluated, by the short-circuit of && on line 83
RayRightOf(x, y, xi, yi, xj, yj) ==
    IF ~(IsFinite(x) /\ IsFinite(y)) THEN FALSE
    ELSE LET num == (xj - xi) * (y.v - yi)
             den == yj - yi
         IN IF den > 0 THEN (x.v - xi) * den < num
            ELSE (x.v - xi) * den > num

\* a crossing test that compares the latitudes with >= instead of >
EdgeCrossedInclusive(x, y, xi, yi, xj, yj) ==
    /\ (~JsLt(Num(yi), y) /\ y.k # "nan") # (~JsLt(Num(yj), y) /\ y.k # "nan")
    /\ RayRightOf(x, y, xi, yi, xj, yj)

\* the if of line 83
EdgeCrossed(x, y, xi, yi, xj, yj) ==
    /\ JsLt(y, Num(yi)) # JsLt(y, Num(yj))
    /\ RayRightOf(x, y, xi, yi, xj, yj)

RECURSIVE pointInPolygonLoop(_, _, _, _, _)
pointInPolygonLoop(point, polygon, i, j, inside) ==
    IF i < Len(polygon)
    THEN LET xi == polygon[i + 1][1]
             yi == polygon[i + 1][2]
             xj == polygon[j + 1][1]
             yj == polygon[j + 1][2]
         IN pointInPolygonLoop(point, polygon, i + 1, i,
                IF EdgeCrossed(point[1], point[2], xi, yi, xj, yj)
                THEN ~inside ELSE inside)
    ELSE inside

\* a loop that starts at i = 1, j = 0 and so leaves out the closing edge
pointInPolygonOpenRing(point, polygon) ==
    pointInPolygonLoop(point, polygon, 1, 0, FALSE)

pointInPolygon(point, polygon) ==
    pointInPolygonLoop(point, polygon, 0, Len(polygon) - 1, FALSE)

(***************************************************************************)
(* Boundary documents.  A parsed GeoJSON value is                           *)
(*   [hasFeatures |-> BOOLEAN, features |-> sequence of features]           *)
(* (hasFeatures = FALSE: the object has no "features" member), a feature is *)
(*   [hasGeometry |-> BOOLEAN, type |-> geometry.type,                      *)
(*    ring |-> geometry.coordinates[0]]                                     *)
(* and a ring is a sequence of vertices <<lng, lat>>.                       *)
(***************************************************************************)
Feature(type, ring) == [hasGeometry |-> TRUE, type |-> type, ring |-> ring]
NoGeometryFeature == [hasGeometry |-> FALSE, type |-> "", ring |-> <<>>]
FeatureCollection(features) == [hasFeatures |-> TRUE, features |-> features]
NoFeaturesObject == [hasFeatures |-> FALSE, features |-> <<>>]

\* value or exception of a call
Return(v) == [threw |-> FALSE, value |-> v]
Throw == [threw |-> TRUE, value |-> FALSE]

(***************************************************************************)
(* isPointInBoundary, lines 60-72                                           *)
(***************************************************************************)
RECURSIVE isPointInBoundaryLoop(_, _, _, _)
isPointInBoundaryLoop(lat, lng, features, n) ==
    IF n > Len(features) THEN Return(FALSE)
    ELSE LET feature == features[n]
         IN IF ~feature.hasGeometry THEN Throw
            ELSE IF feature.type = "Polygon"
                    /\ pointInPolygon(<<lng, lat>>, feature.ring)
                 THEN Return(TRUE)
                 ELSE isPointInBoundaryLoop(lat, lng, features, n + 1)

\* a call that hands the point to pointInPolygon as [lat, lng]
isPointInBoundarySwapped(lat, lng, geojson) ==
    IF ~geojson.hasFeatures THEN Return(FALSE)
    ELSE isPointInBoundaryLoop(lng, lat, geojson.features, 1)

isPointInBoundary(lat, lng, geojson) ==
    IF ~geojson.hasFeatures THEN Return(FALSE)
    ELSE isPointInBoundaryLoop(lat, lng, geojson.features, 1)

(***************************************************************************)
(* getBoundaryBounds, lines 91-109                                          *)
(***************************************************************************)
InitialBounds ==
    [minLat |-> Infinity, maxLat |-> NegInfinity,
     minLng |-> Infinity, maxLng |-> NegInfinity]

\* a vertex read as [lat, lng]
BoundsWithVertexSwapped(b, vertex) ==
    LET lat == Num(vertex[1])
        lng == Num(vertex[2])
    IN [minLat |-> MathMin(b.minLat, lat), maxLat |-> MathMax(b.maxLat, lat),
        minLng |-> MathMin(b.minLng, lng), maxLng |-> MathMax(b.maxLng, lng)]

\* lines 98-103: one vertex [lng, lat]
BoundsWithVertex(b, vertex) ==
    LET lng == Num(vertex[1])
        lat == Num(vertex[2])
    IN [minLat |-> MathMin(b.minLat, lat), maxLat |-> MathMax(b.maxLat, lat),
        minLng |-> MathMin(b.minLng, lng), maxLng |-> MathMax(b.maxLng, lng)]

RECURSIVE BoundsWithRing(_, _, _)
BoundsWithRing(b, ring, n) ==
    IF n > Len(ring) THEN b
    ELSE CHOOSE after \in {BoundsWithRing(next, ring, n + 1) :
                               next \in {BoundsWithVertex(b, ring[n])}} : TRUE

RECURSIVE getBoundaryBoundsLoop(_, _, _)
getBoundaryBoundsLoop(b, features, n) ==
    IF n > Len(features) THEN Return(b)
    ELSE LET feature == features[n]
         IN IF ~feature.hasGeometry THEN Throw
            ELSE getBoundaryBoundsLoop(
                     IF feature.type = "Polygon"
                     THEN BoundsWithRing(b, feature.ring, 1) ELSE b,
                     features, n + 1)

getBoundaryBounds(geojson) ==
    IF geojson.hasFeatures
    THEN getBoundaryBoundsLoop(InitialBounds, geojson.features, 1)
    ELSE Return(InitialBounds)

(***************************************************************************)
(* Files the user can pick.  A File is [stem, ext] (its name is stem.ext);  *)
(* FileText gives what file.text() resolves to and JSON.parse makes of it.  *)
(***************************************************************************)
NoFile == [stem |-> "", ext |-> ""]

\* of the points the sampler can draw, [lng, lat] = [0, 1] is inside the
\* triangle and [0, 0] is not
TriangleRing == << <<0, 0>>, <<1, 2>>, <<0, 2>> >>

Files ==
    { [stem |-> "triangle", ext |-> "geojson"],
      [stem |-> "points", ext |-> "geojson"],
      [stem |-> "broken", ext |-> "geojson"],
      [stem |-> "nogeometry", ext |-> "geojson"],
      [stem |-> "notes", ext |-> "txt"] }

Parsed(json) == [parses |-> TRUE, json |-> json]
Unparsable == [parses |-> FALSE, json |-> NoFeaturesObject]

FileText(file) ==
    CASE file.stem = "triangle" ->
           Parsed(FeatureCollection(<< Feature("Point", <<>>),
                                       Feature("Polygon", TriangleRing) >>))
      [] file.stem = "points" ->
           Parsed(FeatureCollection(<< Feature("Point", <<>>) >>))
      [] file.stem = "nogeometry" ->
           Parsed(FeatureCollection(<< Feature("Polygon", TriangleRing),
                                       NoGeometryFeature >>))
      [] OTHER -> Unparsable

\* line 44: file.name.endsWith('.geojson')
EndsWithGeojson(file) == file.ext = "geojson"

(***************************************************************************)
(* State                                                                    *)
(***************************************************************************)
VARIABLES
    version,        \* which definition of the component is mounted
    config,         \* useState<CollectorConfig>, lines 29-35
    isCollecting,   \* line 37
    progress,       \* line 38, as the fraction [num, den]
    results,        \* line 39
    currentStatus,  \* line 40
    toast,          \* the last notification handed to toast()
    pc,             \* where the run of simulateCollection stands
    run,            \* the config the running simulateCollection closed over
    geojsonData,    \* line 141
    bounds,         \* line 142
    i,              \* line 147
    attempts,       \* line 151
    validCoords,    \* line 152
    lat,            \* line 153
    lng,            \* line 153
    probe           \* a direct call of a helper: its arguments and result

component == << version, config, isCollecting, progress, results,
                currentStatus, toast, pc, run, geojsonData, bounds, i,
                attempts, validCoords, lat, lng >>

vars == << component, probe >>

locals == << geojsonData, bounds, i, attempts, validCoords, lat, lng >>

\* lines 126-136
statusMessages ==
    << "Parsing GeoJSON boundary file...",
       "Initializing browser automation...",
       "Loading starting URL with Playwright...",
       "Locating pegman icon...",
       "Detecting Street View blue lines...",
       "Capturing network requests...",
       "Validating coordinates within bounds...",
       "Adjusting map position...",
       "Continuing data collection..." >>

\* lines 501-510
statusMessagesPlain == SubSeq(statusMessages, 2, Len(statusMessages))

Toast(title, variant, count) ==
    [title |-> title, variant |-> variant, count |-> count]
NoToast == Toast("", "default", 0)

Fraction(num, den) == [num |-> num, den |-> den]

\* a number variable of simulateCollection that holds no value yet (it is
\* never read in that state)
Undefined == NaN
NoGeojson == NoFeaturesObject

\* the points at which the run awaits and other events can be handled
AwaitPoints == {"idle", "reading", "parsed", "yield"}

\* a start condition that forgets the count
canStartCollectionAnyCount ==
    config.boundingFile # NoFile /\ config.startingUrl

\* line 216
canStartCollection ==
    config.boundingFile # NoFile /\ config.startingUrl /\ config.targetCount > 0

\* a Start button that stays enabled during a run
StartDisabledIgnoresCollecting == ~canStartCollection

\* line 339: disabled={!canStartCollection || isCollecting}
StartDisabled == ~canStartCollection \/ isCollecting

\* no helper is called directly while the component runs
NoProbe == [fn |-> "none"]

\* the component as mounted: the initial values of lines 29-40
Mounted ==
    /\ version \in {"validating", "plain"}
    /\ config = [boundingFile |-> NoFile, startingUrl |-> FALSE,
                 targetCount |-> DefaultTargetCount]
    /\ isCollecting = FALSE
    /\ progress = Fraction(0, 1)
    /\ results = <<>>
    /\ currentStatus = ""
    /\ toast = NoToast
    /\ pc = "idle"
    /\ run = config
    /\ geojsonData = NoGeojson
    /\ bounds = InitialBounds
    /\ i = 0
    /\ attempts = 0
    /\ validCoords = FALSE
    /\ lat = Undefined
    /\ lng = Undefined

Init == Mounted /\ probe = NoProbe

\* the variables of a finished call are gone
LocalsGone ==
    /\ geojsonData' = NoGeojson
    /\ bounds' = InitialBounds
    /\ i' = 0
    /\ attempts' = 0
    /\ validCoords' = FALSE
    /\ lat' = Undefined
    /\ lng' = Undefined

(***************************************************************************)
(* The form: handleFileUpload (lines 42-57) and the onChange handlers       *)
(***************************************************************************)
handleFileUpload(file) ==
    /\ pc \in AwaitPoints
    /\ IF file # NoFile /\ EndsWithGeojson(file)
       THEN /\ config' = [config EXCEPT !.boundingFile = file]
            /\ toast' = Toast("Boundary file uploaded", "default", 0)
       ELSE /\ config' = config
            /\ toast' = Toast("Invalid file", "destructive", 0)
    /\ UNCHANGED << probe, version, isCollecting, progress, results, currentStatus,
                    pc, run, locals >>

\* line 279; the URL is modelled by whether it is a non-empty string
SetStartingUrl(nonEmpty) ==
    /\ pc \in AwaitPoints
    /\ config' = [config EXCEPT !.startingUrl = nonEmpty]
    /\ UNCHANGED << probe, version, isCollecting, progress, results, currentStatus,
                    toast, pc, run, locals >>

\* line 292: parseInt(e.target.value) || 0
SetTargetCount(n) ==
    /\ pc \in AwaitPoints
    /\ config' = [config EXCEPT !.targetCount = n]
    /\ UNCHANGED << probe, version, isCollecting, progress, results, currentStatus,
                    toast, pc, run, locals >>

\* lines 205-214: the results are serialized and offered as a download (the
\* button of line 416 is disabled while there is none); no state is written
exportResults ==
    /\ pc \in AwaitPoints
    /\ Len(results) > 0
    /\ UNCHANGED vars

(***************************************************************************)
(* simulateCollection, lines 111-203 (validating) and 496-547 (plain)       *)
(***************************************************************************)
\* a run that leaves the try block by an exception but never clears the flag
FailKeepsCollecting ==
    /\ toast' = Toast("Collection failed", "destructive", 0)
    /\ isCollecting' = isCollecting
    /\ pc' = "idle"
    /\ LocalsGone

\* catch and finally, lines 194-202
Fail ==
    /\ toast' = Toast("Collection failed", "destructive", 0)
    /\ isCollecting' = FALSE
    /\ pc' = "idle"
    /\ LocalsGone

\* The click on Start Collection (lines 337-341) and the call up to its
\* first await: lines 111-140, or lines 496-512 of the plain component.
StartCollection ==
    /\ pc \in AwaitPoints
    /\ ~StartDisabled
    /\ config.targetCount <= MaxTargetCount
    /\ run' = config
    /\ progress' = Fraction(0, 1)
    /\ results' = <<>>
    /\ IF version = "validating" /\ config.boundingFile = NoFile
       THEN /\ toast' = Toast("No boundary file", "destructive", 0)
            /\ isCollecting' = FALSE
            /\ pc' = "idle"
       ELSE /\ toast' = toast
            /\ isCollecting' = TRUE
            /\ pc' = IF version = "validating" THEN "reading" ELSE "slot"
    /\ UNCHANGED << probe, version, config, currentStatus, locals >>

\* lines 140-145: file.text() settles, JSON.parse, getBoundaryBounds
ReadFile ==
    /\ pc = "reading"
    /\ \E rejected \in BOOLEAN :
         LET text == FileText(run.boundingFile)
             b == getBoundaryBounds(text.json)
         IN IF rejected \/ ~text.parses \/ b.threw
            THEN /\ Fail
                 /\ UNCHANGED << probe, version, config, progress, results,
                                 currentStatus, run >>
            ELSE /\ geojsonData' = text.json
                 /\ bounds' = b.value
                 /\ currentStatus' = "Boundary file parsed successfully"
                 /\ pc' = "parsed"
                 /\ UNCHANGED << probe, version, config, isCollecting, progress,
                                 results, toast, run, i, attempts,
                                 validCoords, lat, lng >>

\* line 145 resolves; line 147: let i = 0
TimerParsed ==
    /\ pc = "parsed"
    /\ i' = 0
    /\ pc' = "slot"
    /\ UNCHANGED << probe, version, config, isCollecting, progress, results,
                    currentStatus, toast, run, geojsonData, bounds, attempts,
                    validCoords, lat, lng >>

\* a loop that runs one slot too many
LoopConditionInclusive == i <= run.targetCount

\* lines 147 and 513: i < config.targetCount
LoopCondition == i < run.targetCount

\* lines 148-153: the status, the slot's variables
BeginSlot ==
    /\ pc = "slot"
    /\ version = "validating"
    /\ LoopCondition
    /\ currentStatus' = statusMessages[((i + 1) % Len(statusMessages)) + 1]
    /\ attempts' = 0
    /\ validCoords' = FALSE
    /\ pc' = "attempt"
    /\ UNCHANGED << probe, version, config, isCollecting, progress, results, toast,
                    run, geojsonData, bounds, i, lat, lng >>

\* lines 155-169: one pass of the do ... while
Attempt ==
    /\ pc = "attempt"
    /\ \E dlat \in RandomTimes(JsSub(bounds.maxLat, bounds.minLat)),
          dlng \in RandomTimes(JsSub(bounds.maxLng, bounds.minLng)) :
         \E newLat \in {JsAdd(bounds.minLat, dlat)},
            newLng \in {JsAdd(bounds.minLng, dlng)} :
           \E inB \in {isPointInBoundary(newLat, newLng, geojsonData)} :
             IF inB.threw
             THEN /\ Fail
                  /\ UNCHANGED << probe, version, config, progress, results,
                                  currentStatus, run >>
             ELSE /\ lat' = newLat
                  /\ lng' = newLng
                  /\ validCoords' = inB.value
                  /\ attempts' = attempts + 1
                  /\ pc' = IF attempts + 1 > MaxAttempts THEN "endslot"
                           ELSE IF ~inB.value THEN "attempt"
                           ELSE "endslot"
                  /\ UNCHANGED << probe, version, config, isCollecting,
                                  progress, results, currentStatus, toast, run,
                                  geojsonData, bounds, i >>

\* an update that puts the new point in front of the earlier ones
AppendResultInFront(point) == <<point>> \o results

\* lines 179 and 525: setResults(prev => [...prev, mockResult])
AppendResult(point) == Append(results, point)

\* a progress computed from i instead of i + 1
SlotProgressFromZero == Fraction(i * 100, run.targetCount)

\* lines 182 and 526: ((i + 1) / config.targetCount) * 100
SlotProgress == Fraction((i + 1) * 100, run.targetCount)

\* an append that does not look at validCoords
SlotResultsUnchecked ==
    Append(results, [latitude |-> lat, longitude |-> lng])

\* lines 171-180: if (validCoords) setResults(prev => [...prev, mockResult])
SlotResults ==
    IF validCoords
    THEN AppendResult([latitude |-> lat, longitude |-> lng])
    ELSE results

\* a slot that turns an exhausted attempt budget into an exception
EndSlotThrowsOnSkip ==
    /\ pc = "endslot"
    /\ IF validCoords
       THEN /\ results' = SlotResults
            /\ progress' = SlotProgress
            /\ pc' = "yield"
            /\ attempts' = 0
            /\ validCoords' = FALSE
            /\ lat' = Undefined
            /\ lng' = Undefined
            /\ UNCHANGED << probe, version, config, isCollecting,
                            currentStatus, toast, run, geojsonData, bounds, i >>
       ELSE /\ Fail
            /\ UNCHANGED << probe, version, config, progress, results,
                            currentStatus, run >>

\* lines 171-185: the append, the progress, the await of the delay.  The
\* slot's variables (attempts, validCoords, lat, lng) are not read after
\* line 180 and are declared anew by the next slot: they are cleared here.
EndSlot ==
    /\ pc = "endslot"
    /\ results' = SlotResults
    /\ progress' = SlotProgress
    /\ pc' = "yield"
    /\ attempts' = 0
    /\ validCoords' = FALSE
    /\ lat' = Undefined
    /\ lng' = Undefined
    /\ UNCHANGED << probe, version, config, isCollecting, currentStatus,
                    toast, run, geojsonData, bounds, i >>

\* lines 513-529 of the plain component: a slot appends a mocked point
PlainSlot ==
    /\ pc = "slot"
    /\ version = "plain"
    /\ LoopCondition
    /\ currentStatus' = statusMessagesPlain[(i % Len(statusMessagesPlain)) + 1]
    /\ \E dlat \in {-50, 0}, dlng \in {-50, 0} :
         results' = AppendResult([latitude |-> Num(407128 + dlat),
                                  longitude |-> Num(dlng - 740060)])
    /\ progress' = SlotProgress
    /\ pc' = "yield"
    /\ UNCHANGED << probe, version, config, isCollecting, toast, run, locals >>

\* a delay whose promise is never resolved
TimerSlotNeverFires ==
    /\ pc = "yield"
    /\ UNCHANGED vars

\* line 185 (529) resolves; i++
TimerSlot ==
    /\ pc = "yield"
    /\ i' = i + 1
    /\ pc' = "slot"
    /\ UNCHANGED << probe, version, config, isCollecting, progress, results,
                    currentStatus, toast, run, geojsonData, bounds, attempts,
                    validCoords, lat, lng >>

\* lines 188-192 and 200-202: the loop is over
Complete ==
    /\ pc = "slot"
    /\ ~LoopCondition
    /\ currentStatus' = "Collection completed successfully"
    /\ toast' = Toast("Collection completed", "default", run.targetCount)
    /\ isCollecting' = FALSE
    /\ pc' = "idle"
    /\ LocalsGone
    /\ UNCHANGED << probe, version, config, progress, results, run >>

Next ==
    \/ \E file \in Files \cup {NoFile} : handleFileUpload(file)
    \/ \E nonEmpty \in BOOLEAN : SetStartingUrl(nonEmpty)
    \/ \E n \in (-1)..MaxTargetCount : SetTargetCount(n)
    \/ exportResults
    \/ StartCollection
    \/ ReadFile
    \/ TimerParsed
    \/ BeginSlot
    \/ Attempt
    \/ EndSlot
    \/ PlainSlot
    \/ TimerSlot
    \/ Complete

Spec == Init /\ [][Next]_vars

\* the steps of a run of simulateCollection
RunNext ==
    \/ ReadFile
    \/ TimerParsed
    \/ BeginSlot
    \/ Attempt
    \/ EndSlot
    \/ PlainSlot
    \/ TimerSlot
    \/ Complete

\* The specification under which the end of a run is checked.  The user
\* edits the URL and the count whenever events are handled and picks the
\* boundary file between two runs.  The run goes on whenever it can: the
\* promise of file.text() settles, the timers of lines 145 and 185 fire, and
\* the code between two awaits runs to its end.
FairNext ==
    \/ /\ pc = "idle"
       /\ \E file \in Files \cup {NoFile} : handleFileUpload(file)
    \/ \E nonEmpty \in BOOLEAN : SetStartingUrl(nonEmpty)
    \/ \E n \in (-1)..MaxTargetCount : SetTargetCount(n)
    \/ exportResults
    \/ StartCollection
    \/ RunNext

FairSpec == Init /\ [][FairNext]_vars /\ WF_vars(RunNext)

(***************************************************************************)
(* Properties of the collection run                                         *)
(***************************************************************************)
\* the boundary the current or last run was started with, as JSON.parse
\* reads it
RunBoundary == FileText(run.boundingFile).json

Contained(latitude, longitude, geojson) ==
    LET r == isPointInBoundary(latitude, longitude, geojson)
    IN ~r.threw /\ r.value

\* the slots of the loop are being processed
InLoop == pc \in {"slot", "attempt", "endslot", "yield"}

\* C1: in the boundary-validating component every point of results passes
\* isPointInBoundary against the boundary of its run, and so does the point a
\* slot has accepted and is about to append, also when it was accepted on the
\* last attempt the loop permits.
C1_ResultsInsideBoundary ==
    version = "validating" =>
      /\ \A k \in 1..Len(results) :
           Contained(results[k].latitude, results[k].longitude, RunBoundary)
      /\ (pc = "endslot" /\ validCoords) => Contained(lat, lng, RunBoundary)

\* C1 witness: a second point is accepted on the very last attempt of its
\* slot, after a first one was appended.
C1_Witness ==
    /\ version = "validating"
    /\ pc = "endslot"
    /\ validCoords
    /\ attempts = MaxAttempts + 1
    /\ Len(results) = 1

\* C2: results never holds more points than the run was requested with, and
\* slot i has appended at most one point: while slot i is being processed
\* there are at most i points, and at most i + 1 once it has been processed.
C2_AtMostRequested ==
    /\ Len(results) <= run.targetCount
    /\ pc \in {"slot", "attempt", "endslot"} => Len(results) <= i
    /\ pc = "yield" => Len(results) <= i + 1

\* C2 witness: a finished run that collected every one of its N >= 2 points
C2_Witness ==
    /\ pc = "idle"
    /\ toast.title = "Collection completed"
    /\ run.targetCount >= 2
    /\ Len(results) = run.targetCount

\* the boundary has a Polygon feature with at least one vertex
HasVertex(geojson) ==
    /\ geojson.hasFeatures
    /\ \E n \in 1..Len(geojson.features) :
         /\ geojson.features[n].hasGeometry
         /\ geojson.features[n].type = "Polygon"
         /\ Len(geojson.features[n].ring) > 0

FiniteBounds(b) ==
    /\ IsFinite(b.minLat) /\ IsFinite(b.maxLat)
    /\ IsFinite(b.minLng) /\ IsFinite(b.maxLng)

\* C3 (as claimed): a boundary without a Polygon feature or without vertices
\* is rejected: no run goes on with a bounding box of infinite extents, and
\* no run over such a boundary ends with the success signal.
C3_EmptyBoundaryRejected ==
    version = "validating" =>
      /\ pc \in {"parsed", "slot", "attempt", "endslot", "yield"}
           => FiniteBounds(bounds)
      /\ (pc = "idle" /\ toast.title = "Collection completed")
           => HasVertex(RunBoundary)

\* C4 (as claimed): a slot draws and tests at most 100 candidate points.
C4_AtMostCeilingDraws == attempts <= MaxAttempts

CannotRead(file) ==
    \/ ~FileText(file).parses
    \/ getBoundaryBounds(FileText(file).json).threw

\* C6: when the boundary document cannot be parsed or read, the run ends in
\* failure: the failure notification is the one emitted (not the success
\* one), results is empty and isCollecting is false.  And whenever a run
\* ends with the failure signal, results is empty and isCollecting false.
C6_ParseFailureIsTerminal ==
    [][ /\ (pc = "reading" /\ pc' # "reading" /\ CannotRead(run.boundingFile))
             => /\ pc' = "idle"
                /\ toast' = Toast("Collection failed", "destructive", 0)
                /\ results' = <<>>
                /\ ~isCollecting'
        /\ (pc # "idle" /\ pc' = "idle" /\ toast'.title = "Collection failed")
             => /\ results' = <<>>
                /\ ~isCollecting' ]_vars

\* C6 witness: a run over the unparsable document has ended in failure,
\* after an earlier run had collected points
C6_Witness ==
    /\ pc = "idle"
    /\ run.boundingFile.stem = "broken"
    /\ toast.title = "Collection failed"
    /\ results = <<>>
    /\ ~isCollecting
    /\ progress = Fraction(0, 1)
    /\ currentStatus = "Collection completed successfully"

\* C7: a slot that ends without an accepted candidate is skipped: nothing is
\* appended, no notification is emitted, the run stays active and goes on to
\* the next slot; a run that has entered the loop ends only with the success
\* signal, with between 0 and N points.
C7_SkippedSlotIsNoError ==
    [][ /\ (pc = "endslot" /\ ~validCoords)
             => /\ results' = results
                /\ toast' = toast
                /\ isCollecting'
                /\ pc' = "yield"
        /\ (pc = "yield" /\ pc' # "yield")
             => /\ pc' = "slot"
                /\ i' = i + 1
        /\ (InLoop /\ pc' = "idle")
             => /\ toast'.title = "Collection completed"
                /\ Len(results') <= run.targetCount ]_vars

\* C7 witness: a run of the validating component ended with the success
\* signal and fewer points than requested: one slot was skipped, another
\* was not
C7_Witness ==
    /\ version = "validating"
    /\ pc = "idle"
    /\ toast.title = "Collection completed"
    /\ run.targetCount = 2
    /\ Len(results) = 1

(***************************************************************************)
(* Direct calls of pointInPolygon: the polygon and the point are drawn in   *)
(* the initial state, the function is applied to the polygon and then to    *)
(* its cyclic rotations.                                                    *)
(***************************************************************************)
PolygonVertices == {0, 2} \X {0, 2}

\* the square of the spec's scenario
ScenarioSquare == << <<0, 0>>, <<0, 10>>, <<10, 10>>, <<10, 0>> >>

ProbePolygons == UNION {[1..n -> PolygonVertices] : n \in 0..MaxVertices}

ProbePoints == {<<Num(x), Num(y)>> : x \in (-1)..3, y \in (-1)..3}

PolygonProbe(point, polygon) ==
    [fn |-> "pointInPolygon", point |-> point, polygon |-> polygon,
     rotation |-> 0, called |-> FALSE, inside |-> FALSE]

InitPolygon ==
    /\ Mounted
    /\ version = "validating"
    /\ \/ \E point \in ProbePoints, polygon \in ProbePolygons :
            probe = PolygonProbe(point, polygon)
       \/ \E point \in {<<Num(5), Num(5)>>, <<Num(15), Num(15)>>} :
            probe = PolygonProbe(point, ScenarioSquare)

\* the same ring, starting one vertex later
Rotate(polygon) ==
    IF polygon = <<>> THEN polygon ELSE Append(Tail(polygon), Head(polygon))

CallPointInPolygon ==
    /\ probe.fn = "pointInPolygon"
    /\ ~probe.called
    /\ probe' = [probe EXCEPT !.called = TRUE,
                              !.inside = pointInPolygon(probe.point,
                                                        probe.polygon)]
    /\ UNCHANGED component

CallRotated ==
    /\ probe.fn = "pointInPolygon"
    /\ probe.called
    /\ probe.rotation < Len(probe.polygon)
    /\ probe' = [probe EXCEPT !.polygon = Rotate(probe.polygon),
                              !.rotation = probe.rotation + 1,
                              !.inside = pointInPolygon(probe.point,
                                             Rotate(probe.polygon))]
    /\ UNCHANGED component

NextPolygon == CallPointInPolygon \/ CallRotated

SpecPolygon == InitPolygon /\ [][NextPolygon]_vars

(***************************************************************************)
(* Direct calls of getBoundaryBounds: the boundary is drawn in the initial  *)
(* state.                                                                   *)
(***************************************************************************)
BoundsVertices == { <<0, 0>>, <<2, -1>>, <<-1, 3>> }

ProbeRings == UNION {[1..n -> BoundsVertices] : n \in 0..2}

ProbeFeatures ==
    {Feature(type, ring) : type \in {"Polygon", "Point"}, ring \in ProbeRings}

ProbeBoundaries ==
    {NoFeaturesObject} \cup
    {FeatureCollection(features) :
        features \in UNION {[1..n -> ProbeFeatures] : n \in 0..MaxFeatures}}

InitBounds ==
    /\ Mounted
    /\ version = "validating"
    /\ \E geojson \in ProbeBoundaries :
         probe = [fn |-> "getBoundaryBounds", geojson |-> geojson,
                  called |-> FALSE, result |-> Return(InitialBounds)]

CallGetBoundaryBounds ==
    /\ probe.fn = "getBoundaryBounds"
    /\ ~probe.called
    /\ probe' = [probe EXCEPT !.called = TRUE,
                              !.result = getBoundaryBounds(probe.geojson)]
    /\ UNCHANGED component

NextBounds == CallGetBoundaryBounds

SpecBounds == InitBounds /\ [][NextBounds]_vars

(***************************************************************************)
(* Properties of the helpers                                                *)
(***************************************************************************)
\* the vertices of the outer rings of the Polygon features
PolygonVertexSet(geojson) ==
    UNION { {geojson.features[n].ring[k] :
                k \in 1..Len(geojson.features[n].ring)} :
            n \in {m \in 1..Len(geojson.features) :
                     geojson.features[m].type = "Polygon"} }

Least(S) == CHOOSE m \in S : \A z \in S : m <= z
Greatest(S) == CHOOSE m \in S : \A z \in S : m >= z

\* C8: for a boundary with a Polygon feature that has a vertex,
\* getBoundaryBounds returns the least and the greatest latitude and
\* longitude over all vertices of the outer rings of the Polygon features,
\* so that minLat <= maxLat and minLng <= maxLng.
C8_BoundsAreExtremes ==
    ( /\ probe.fn = "getBoundaryBounds"
      /\ probe.called
      /\ HasVertex(probe.geojson) )
      => LET lats == {v[2] : v \in PolygonVertexSet(probe.geojson)}
             lngs == {v[1] : v \in PolygonVertexSet(probe.geojson)}
             b == probe.result.value
         IN /\ ~probe.result.threw
            /\ b = [minLat |-> Num(Least(lats)), maxLat |-> Num(Greatest(lats)),
                    minLng |-> Num(Least(lngs)), maxLng |-> Num(Greatest(lngs))]
            /\ b.minLat.v <= b.maxLat.v
            /\ b.minLng.v <= b.maxLng.v

\* C8 witness: the bounds of a boundary with a Point feature, whose
\* coordinates do not count, and a Polygon feature of two vertices
C8_Witness ==
    /\ probe.fn = "getBoundaryBounds"
    /\ probe.called
    /\ probe.geojson =
         FeatureCollection(<< Feature("Point", << <<-1, 3>> >>),
                              Feature("Polygon", << <<0, 0>>, <<2, -1>> >>) >>)
    /\ probe.result.value = [minLat |-> Num(-1), maxLat |-> Num(0),
                             minLng |-> Num(0), maxLng |-> Num(2)]

\* C9: pointInPolygon gives the same result for a polygon and for every
\* cyclic rotation of its vertex list, for every query point, also one on an
\* edge or at the latitude of a vertex.
C9_RotationInvariant ==
    [][ ( /\ probe.fn = "pointInPolygon"
          /\ probe.called
          /\ probe'.called )
          => probe'.inside = probe.inside ]_vars

\* C9 witness: a polygon rotated twice contains a point that lies at the
\* latitude of one of its vertices
C9_Witness ==
    /\ probe.fn = "pointInPolygon"
    /\ probe.called
    /\ probe.rotation = 2
    /\ probe.inside
    /\ \E n \in 1..Len(probe.polygon) :
         probe.polygon[n][2] = probe.point[2].v

\* the edges (vertex n, vertex n - 1 with wraparound) whose endpoints
\* straddle the latitude of the point, one strictly greater and the other
\* not greater, and which the ray meets at a greater longitude
CrossedEdges(point, polygon) ==
    { n \in 1..Len(polygon) :
        LET a == polygon[n]
            b == polygon[IF n = 1 THEN Len(polygon) ELSE n - 1]
            x == point[1].v
            y == point[2].v
            lo == IF a[2] <= b[2] THEN a ELSE b
            hi == IF a[2] <= b[2] THEN b ELSE a
        IN /\ hi[2] > y
           /\ ~(lo[2] > y)
           /\ lo[1] * (hi[2] - lo[2]) + (hi[1] - lo[1]) * (y - lo[2])
                > x * (hi[2] - lo[2]) }

\* C10: pointInPolygon is the even-odd rule: it returns true exactly when the
\* number of crossed edges is odd (for every polygon and point drawn, the
\* simple polygons and the points off their edges among them); for the
\* square [(0,0),(0,10),(10,10),(10,0)] it returns true for (5,5) and false
\* for (15,15).
C10_EvenOddRule ==
    (probe.fn = "pointInPolygon" /\ probe.called)
      => /\ probe.inside
              = (Cardinality(CrossedEdges(probe.point, probe.polygon)) % 2 = 1)
         /\ (probe.polygon = ScenarioSquare
               /\ probe.point = <<Num(5), Num(5)>>) => probe.inside
         /\ (probe.polygon = ScenarioSquare
               /\ probe.point = <<Num(15), Num(15)>>) => ~probe.inside

\* C10 witness: the scenario's square is found to contain (5,5)
C10_Witness ==
    /\ probe.fn = "pointInPolygon"
    /\ probe.called
    /\ probe.polygon = ScenarioSquare
    /\ probe.point = <<Num(5), Num(5)>>
    /\ probe.inside

(***************************************************************************)
(* Direct calls of isPointInBoundary: the boundary and the point are drawn  *)
(* in the initial state.                                                    *)
(***************************************************************************)
\* no vertices, a square, a second square apart from the first, and a
\* triangle that overlaps the first square
BoundaryRings ==
    { <<>>,
      << <<0, 0>>, <<0, 2>>, <<2, 2>>, <<2, 0>> >>,
      << <<4, 0>>, <<4, 2>>, <<6, 2>>, <<6, 0>> >>,
      << <<1, 0>>, <<3, 0>>, <<1, 2>> >> }

BoundaryFeatures ==
    {Feature(type, ring) :
        type \in {"Polygon", "Point"}, ring \in BoundaryRings}

BoundaryDocuments ==
    {NoFeaturesObject} \cup
    {FeatureCollection(features) :
        features \in UNION {[1..n -> BoundaryFeatures] : n \in 0..MaxFeatures}}

InitBoundary ==
    /\ Mounted
    /\ version = "validating"
    /\ \E geojson \in BoundaryDocuments,
          latitude \in (-1)..3, longitude \in (-1)..7 :
         probe = [fn |-> "isPointInBoundary", lat |-> Num(latitude),
                  lng |-> Num(longitude), geojson |-> geojson,
                  called |-> FALSE, result |-> Return(FALSE)]

CallIsPointInBoundary ==
    /\ probe.fn = "isPointInBoundary"
    /\ ~probe.called
    /\ probe' = [probe EXCEPT
                   !.called = TRUE,
                   !.result = isPointInBoundary(probe.lat, probe.lng,
                                                probe.geojson)]
    /\ UNCHANGED component

NextBoundary == CallIsPointInBoundary

SpecBoundary == InitBoundary /\ [][NextBoundary]_vars

\* the Polygon features of a boundary whose outer ring contains the point
PolygonsAround(latitude, longitude, geojson) ==
    { n \in 1..Len(geojson.features) :
        /\ geojson.features[n].type = "Polygon"
        /\ pointInPolygon(<<longitude, latitude>>, geojson.features[n].ring) }

\* C11: isPointInBoundary returns true exactly when pointInPolygon is true
\* for the outer ring of at least one Polygon feature; a boundary without
\* features, or without a feature of type Polygon, contains no point.
C11_UnionOfPolygons ==
    (probe.fn = "isPointInBoundary" /\ probe.called)
      => /\ ~probe.result.threw
         /\ probe.result.value
              = ( /\ probe.geojson.hasFeatures
                  /\ PolygonsAround(probe.lat, probe.lng, probe.geojson) # {} )
         /\ (\A n \in 1..Len(probe.geojson.features) :
                probe.geojson.features[n].type # "Polygon")
              => ~probe.result.value

\* C11 witness: of two Polygon features apart from each other only the
\* second contains the point, and the point is found inside the boundary
C11_Witness ==
    /\ probe.fn = "isPointInBoundary"
    /\ probe.called
    /\ Len(probe.geojson.features) = 2
    /\ PolygonsAround(probe.lat, probe.lng, probe.geojson) = {2}
    /\ probe.geojson.features[1].type = "Polygon"
    /\ Len(probe.geojson.features[1].ring) = 4
    /\ probe.result.value

(***************************************************************************)
(* Properties of the progress, the order of results and the runs            *)
(***************************************************************************)
\* a progress value as a percentage between 0 and 100
IsPercentage(p) == p.den > 0 /\ 0 <= p.num /\ p.num <= 100 * p.den

\* p <= q on progress values
FractionLeq(p, q) == p.num * q.den <= q.num * p.den

\* the step that starts a run
StartStep == ~isCollecting /\ isCollecting'

\* the step that ends the processing of slot i
SlotStep == pc \in {"slot", "endslot"} /\ pc' = "yield"

\* the step that ends a run with the success signal
SuccessStep ==
    isCollecting /\ ~isCollecting' /\ toast'.title = "Collection completed"

\* C12: the progress is always a percentage in [0, 100]; it is 0 when a run
\* starts, ((i + 1) / N) * 100 once slot i is processed, accepted or
\* skipped, it never decreases while the run is active and it is 100 when
\* the run ends with the success signal.
C12_ProgressIsPercentage ==
    [][ /\ IsPercentage(progress')
        /\ StartStep => progress' = Fraction(0, 1)
        /\ SlotStep => /\ progress'.den = run.targetCount
                       /\ progress'.num = 100 * (i + 1)
        /\ isCollecting => FractionLeq(progress, progress')
        /\ SuccessStep => progress'.num = 100 * progress'.den ]_vars

\* C12 witness: a run of two slots has ended with the success signal and
\* a progress of 100 although one of its slots was skipped
C12_Witness ==
    /\ version = "validating"
    /\ pc = "idle"
    /\ toast.title = "Collection completed"
    /\ run.targetCount = 2
    /\ Len(results) = 1
    /\ progress = Fraction(200, 2)

\* C13: every started run terminates, whatever the random draws are: a run
\* that is active eventually ends with isCollecting false.  It ends only by
\* the failure of reading the boundary or after all N slots were processed,
\* and while it is active no step other than its own changes where it
\* stands or what it was requested with.
C13_RunTerminates ==
    /\ isCollecting ~> ~isCollecting
    /\ [][ /\ (isCollecting /\ ~isCollecting')
                => \/ toast'.title = "Collection failed" /\ pc = "reading"
                   \/ /\ toast'.title = "Collection completed"
                      /\ pc = "slot"
                      /\ i = run.targetCount
           /\ (isCollecting /\ ~RunNext) => (pc' = pc /\ i' = i /\ run' = run)
       ]_vars

\* C13 witness: a run over a boundary in which no candidate is ever accepted
\* has ended after its two slots
C13_Witness ==
    /\ version = "validating"
    /\ pc = "idle"
    /\ ~isCollecting
    /\ run.boundingFile.stem = "points"
    /\ run.targetCount = 2
    /\ progress = Fraction(200, 2)
    /\ results = <<>>
    /\ toast.title = "Collection completed"

\* C14: the results are append-only and in generation order.  The click on
\* Start empties them; afterwards they change only by the step of a slot that
\* ends in a yield, which puts exactly one point behind the earlier ones (so
\* at most one point is appended between two yields); a file upload, an edit
\* of the configuration and an export leave them as they are.
C14_ResultsAppendOnly ==
    [][ /\ StartStep => results' = <<>>
        /\ results' # results
             => \/ ~isCollecting /\ pc = "idle" /\ results' = <<>>
                \/ /\ isCollecting /\ isCollecting'
                   /\ pc \in {"slot", "endslot"} /\ pc' = "yield"
                   /\ Len(results') = Len(results) + 1
                   /\ SubSeq(results', 1, Len(results)) = results
        /\ config' # config => results' = results
        /\ (pc' = pc /\ isCollecting) => results' = results ]_vars

\* C14 witness: two different points were appended, the later one behind the
\* earlier one, and the run awaits the delay of its second slot
C14_Witness ==
    /\ version = "plain"
    /\ isCollecting
    /\ pc = "yield"
    /\ i = 1
    /\ Len(results) = 2
    /\ results[1].latitude = Num(407128)
    /\ results[2].latitude = Num(407078)

\* C15: when a run has ended with the success notification, the number of
\* points the notification states is the length of the results.
C15_NotifiedCountIsLength ==
    (pc = "idle" /\ toast.title = "Collection completed")
        => toast.count = Len(results)

\* C16: at most one run is active.  A run starts only while isCollecting is
\* false and the start condition holds, and it takes the configuration of
\* that moment; isCollecting is true exactly while the run is under way;
\* while it is, only the run's own steps move it or end it, no click resets
\* the results or starts over, and the N it uses stays the one it started
\* with whatever is edited in the form.
C16_SingleRun ==
    /\ [](isCollecting <=> pc # "idle")
    /\ [][ /\ StartStep => /\ pc = "idle"
                           /\ canStartCollection
                           /\ run' = config
                           /\ pc' \in {"reading", "slot"}
           /\ isCollecting => run' = run
           /\ (isCollecting /\ ~RunNext)
                => /\ isCollecting'
                   /\ pc' = pc
                   /\ results' = results
                   /\ progress' = progress
                   /\ locals' = locals
           /\ (isCollecting /\ isCollecting' /\ results' = <<>>)
                => results = <<>> ]_vars

\* C16 witness: the count was edited to 1 while a run requested with 2 was
\* under way, and the run has gone on to its second slot
C16_Witness ==
    /\ version = "validating"
    /\ isCollecting
    /\ pc = "attempt"
    /\ i = 1
    /\ run.targetCount = 2
    /\ config.targetCount = 1
    /\ Len(results) = 1

====
